---- MODULE Spec2Model ----
(***************************************************************************)
(* Model of the WebSocket signalling relay of src/main.go.                 *)
(*                                                                         *)
(* One handler goroutine per connection (handleWebSocket/handleConnection) *)
(* runs: Upgrade, uuid.New, ConnectionManager.Add, the identity WriteJSON, *)
(* the ReadMessage loop with forwardSignal, and the deferred               *)
(* closeConnection.  The handlers share the registry map, guarded by a     *)
(* sync.RWMutex, and the channel handles they write to.                    *)
(*                                                                         *)
(* Spec is the relay: each registry call of a handler (Lock, map access,    *)
(* Unlock) is one step; a WriteJSON is an interval (begin, end) so that    *)
(* two writers on one handle can be seen inside it together; Close and     *)
(* Remove of closeConnection are separate steps.                           *)
(*                                                                         *)
(* SpecRegistry is the ConnectionManager alone under arbitrary concurrent  *)
(* callers, with Lock/RLock, the map access and Unlock/RUnlock as separate *)
(* steps: it is what lets Spec take a registry call as one step.           *)
(***************************************************************************)
EXTENDS Integers, Sequences, FiniteSets, TLC

\* ------------------------------------------------------------------ bounds
\* Number of connection attempts (handler goroutines) in a run.
NumConns == 2
\* Number of client messages the relay's ReadMessage calls return in a run.
MaxReads == 2
\* Number of registry calls the callers of SpecRegistry make in a run.
MaxCalls == 4

\* ------------------------------------------------------------- value sets
\* A connection attempt; also the *websocket.Conn handle it yields.
Conns == 1..NumConns
\* The nil *websocket.Conn: the zero value a missing map key yields.
NoConn == 0
\* The strings uuid.New().String() returns.
Ids == 1..NumConns
\* The empty string in a UserID field (absent userId, identity not minted).
NoId == 0
\* The empty string in a payload field (the zero value of SDP / Candidate).
EmptyString == <<>>
\* The opaque payload of the n-th message a client sends.
Payload(n) == <<"payload", n>>
\* What a client may put in the userId field of an envelope.
ClientUserIds == Ids \cup {NoId}

VARIABLES
    pc,           \* pc[c]: position of c's handler goroutine
    id,           \* id[c]: local `id` of handleConnection (line 89)
    connections,  \* ConnectionManager.connections: identity -> handle
    mutexW,       \* ConnectionManager.mutex is write-locked
    mutexR,       \* number of read locks held on ConnectionManager.mutex
    closed,       \* closed[c]: conn.Close() has been called on handle c
    writers,      \* writers[c]: handlers currently inside WriteJSON on c
    written,      \* written[c]: the values handed to the WriteJSON calls on
                  \* c that returned nil, in the order the calls returned
    reads,        \* client messages handed out by ReadMessage so far
    readFailed,   \* readFailed[c]: the transport of c has failed (sticky)
    message,      \* message[c]: local `message` of the loop (line 104)
    err,          \* err[c]: local `err` of the loop (lines 104, 110)
    targetID,     \* targetID[c]: forwardSignal's targetID (line 143)
    fwdMsg,       \* fwdMsg[c]: forwardSignal's `message` parameter
    targetConn,   \* targetConn[c], exists[c]: result of Get (line 149)
    exists,
    lastAdd,      \* history: per identity, the handle of the latest Add
                  \* not followed by a Remove, NoConn otherwise
    call,         \* call[c]: the registry call caller c is in (SpecRegistry)
    ncalls        \* registry calls started so far (SpecRegistry)

regVars == <<connections, mutexW, mutexR, lastAdd>>
chanVars == <<closed, writers, written>>
readVars == <<reads, readFailed>>
loopVars == <<message, err, targetID, fwdMsg, targetConn, exists>>
callVars == <<call, ncalls>>
vars == <<pc, id, regVars, chanVars, readVars, loopVars, callVars>>

\* --------------------------------------------------- client message shapes
\* The byte payloads ReadMessage can hand to the loop, by what
\* encoding/json makes of them:
\*   sdp        {"signalType":"sdp","userId":u,"sdp_base64":p}
\*   candidate  {"signalType":"candidate","userId":u,"candidate":p}
\*   unknown    {"signalType":"offer"}          an unknown tag
\*   notag      {}                               no signalType at all
\*   badtag     {"signalType":5}                 a tag that is not a string
\*   syntax     {"signalType":                   not JSON
\*   duptag     {"signalType":"sdp","userId":u,"sdp_base64":p,"signalType":5}
\*   nil        the nil slice ReadMessage returns with an error
EnvelopeKinds == {"sdp", "candidate", "duptag"}
DroppedKinds == {"unknown", "notag", "badtag", "syntax"}
NilMessage == [kind |-> "nil", userId |-> NoId, payload |-> EmptyString]
Envelope(k, u, p) == [kind |-> k, userId |-> u, payload |-> p]
Junk(k) == [kind |-> k, userId |-> NoId, payload |-> EmptyString]

\* json.Unmarshal(message, &genericMessage), lines 106-110: the decoded tag
\* and whether an error is returned.  A syntax error (and nil input) decodes
\* nothing; a type error on one field is saved and decoding goes on, so a
\* duplicate key can leave the tag set and still return the error.
GenericUnmarshal(m) ==
    CASE m.kind = "sdp"       -> [SignalType |-> "sdp", err |-> FALSE]
      [] m.kind = "candidate" -> [SignalType |-> "candidate", err |-> FALSE]
      [] m.kind = "unknown"   -> [SignalType |-> "offer", err |-> FALSE]
      [] m.kind = "notag"     -> [SignalType |-> "", err |-> FALSE]
      [] m.kind = "badtag"    -> [SignalType |-> "", err |-> TRUE]
      [] m.kind = "duptag"    -> [SignalType |-> "sdp", err |-> TRUE]
      [] OTHER                -> [SignalType |-> "", err |-> TRUE]

\* json.Unmarshal(message, &messageJson) into SignalMessageSdp, lines 118-119.
\* Mutant of UnmarshalSdp: the sdp_base64 field is not decoded.
UnmarshalSdp_NoPayload(m) ==
    [SignalType |-> "sdp", UserID |-> m.userId, SDP |-> EmptyString]
UnmarshalSdp(m) ==
    [SignalType |-> GenericUnmarshal(m).SignalType,
     UserID |-> m.userId,
     SDP |-> IF m.kind \in {"sdp", "duptag"} THEN m.payload ELSE EmptyString]

\* json.Unmarshal(message, &messageJson) into SignalMessageCandidate,
\* lines 123-124.
UnmarshalCandidate(m) ==
    [SignalType |-> GenericUnmarshal(m).SignalType,
     UserID |-> m.userId,
     Candidate |-> IF m.kind = "candidate" THEN m.payload ELSE EmptyString]

\* The call of line 125 hands a SignalMessageCandidate to forwardSignal,
\* whose parameter is a SignalMessageSdp (line 141): the parameter has the
\* fields SignalType, UserID and SDP and no Candidate field, so only the
\* two shared fields can travel and SDP keeps its zero value.
AsSdpParam(cm) ==
    [SignalType |-> cm.SignalType, UserID |-> cm.UserID, SDP |-> EmptyString]

\* The JSON object WriteJSON makes of a SignalMessageSdp (struct tags of
\* lines 62-66).
SdpJSON(sm) ==
    [signalType |-> sm.SignalType, userId |-> sm.UserID, sdp_base64 |-> sm.SDP]

\* Mutant of IdentityJSON: the message carries the empty identity.
IdentityJSON_Empty(i) == [userId |-> NoId]
\* The JSON object of map[string]string{"userId": id}, line 97.
IdentityJSON(i) == [userId |-> i]

\* Mutant of StampSender: the rewrite of line 146 is left out.
StampSender_Keep(sm, senderID) == sm
\* message.UserID = senderID, line 146.
StampSender(sm, senderID) == [sm EXCEPT !.UserID = senderID]

\* ------------------------------------------------------------ the registry
\* cm.connections[id] = conn, line 43.
MapAdd(m, i, h) == [k \in DOMAIN m \cup {i} |-> IF k = i THEN h ELSE m[k]]
\* Mutant of NewUUID: the generator returns one value for every connection.
NewUUID_Same(c) == 1
\* Mutant of MapRemove: the whole map is emptied.
MapRemove_All(m, i) == <<>>
\* Mutant of MapRemove: the entry is left in the map.
MapRemove_Keep(m, i) == m
\* delete(cm.connections, id), line 50.
MapRemove(m, i) == [k \in DOMAIN m \ {i} |-> m[k]]
\* conn, exists := cm.connections[id], line 57.
MapGet(m, i) ==
    IF i \in DOMAIN m THEN [conn |-> m[i], exists |-> TRUE]
    ELSE [conn |-> NoConn, exists |-> FALSE]

\* sync.RWMutex: Lock waits for the writer and every reader to leave, RLock
\* waits for the writer to leave (lines 41, 48, 55).
CanLock == ~mutexW /\ mutexR = 0
\* Mutant of CanRLock: a read lock that does not wait for the writer.
CanRLock_NoWait == TRUE
CanRLock == ~mutexW

NoMessage == NilMessage
NoCall == [op |-> "none", id |-> NoId, conn |-> NoConn, at |-> "idle",
           found |-> FALSE, got |-> NoConn]
NoFwd == [SignalType |-> "", UserID |-> NoId, SDP |-> EmptyString]

Init ==
    /\ pc = [c \in Conns |-> "idle"]
    /\ id = [c \in Conns |-> NoId]
    /\ connections = <<>>
    /\ mutexW = FALSE
    /\ mutexR = 0
    /\ closed = [c \in Conns |-> FALSE]
    /\ writers = [c \in Conns |-> {}]
    /\ written = [c \in Conns |-> <<>>]
    /\ reads = 0
    /\ readFailed = [c \in Conns |-> FALSE]
    /\ message = [c \in Conns |-> NoMessage]
    /\ err = [c \in Conns |-> FALSE]
    /\ targetID = [c \in Conns |-> NoId]
    /\ fwdMsg = [c \in Conns |-> NoFwd]
    /\ targetConn = [c \in Conns |-> NoConn]
    /\ exists = [c \in Conns |-> FALSE]
    /\ lastAdd = [i \in Ids |-> NoConn]
    /\ call = [c \in Conns |-> NoCall]
    /\ ncalls = 0


\* ------------------------------------------------------------- the handler
\* uuid.New().String(), line 89.  Identities are only ever compared for
\* equality, so one fixed injective assignment stands for every outcome of
\* the generator; it is chosen so that an identity differs from the index
\* of its handle.
NewUUID(c) == (c % NumConns) + 1

\* One entry of written[c]: the JSON object handed to WriteJSON, with its
\* history: the connection whose handler wrote it and the client message it
\* was made from (NilMessage for the identity message).
Entry(j, c, m) == [json |-> j, from |-> c, env |-> m]

\* Mutant of AppendMessage: the new message overtakes the earlier ones.
AppendMessage_Overtake(q, e) == <<e>> \o q
\* A WriteJSON that succeeds puts its message on the channel after the
\* messages written before it (lines 97, 156).
AppendMessage(q, e) == Append(q, e)

\* Whether a WriteJSON on handle h that is returning may report success
\* (a write on a closed connection fails; any write may fail).
WriteOutcomes(h) == IF closed[h] THEN {FALSE} ELSE {TRUE, FALSE}

\* Mutant of AfterIdWrite: the error of the identity write is ignored.
AfterIdWrite_Ignore(ok) == "read"
\* Lines 97-100: after the identity write the handler enters the loop, or
\* on an error returns, which runs the deferred closeConnection.
AfterIdWrite(ok) == IF ok THEN "read" ELSE "close"

\* Mutant of ErrAfterForward: a failed write sets the loop's err.
ErrAfterForward_Leak(e, ok) == e \/ ~ok
\* Lines 156-158 and 141: forwardSignal returns nothing and logs the write
\* error, so the loop's err is what it was before the call.
ErrAfterForward(e, ok) == e

\* Mutant of AfterIteration: the loop never breaks.
AfterIteration_Never(e) == "read"
\* Mutant of AfterIteration: the break of line 133 is taken on every pass.
AfterIteration_Break(e) == "close"
\* The loop's exit test, lines 129-134.
AfterIteration(e) == IF e THEN "close" ELSE "read"

\* The states of the connection lifecycle.
Registered(c) ==
    pc[c] \in {"id_write", "id_writing", "read", "get", "fwd_write",
               "fwd_writing", "check_err"}
Draining(c) == pc[c] \in {"close", "remove"}
Closed(c) == pc[c] = "done"

\* handleWebSocket, lines 169-175, and uuid.New, line 89.
Upgrade(c) ==
    /\ pc[c] = "idle"
    /\ id' = [id EXCEPT ![c] = NewUUID(c)]
    /\ pc' = [pc EXCEPT ![c] = "add"]
    /\ UNCHANGED <<regVars, chanVars, readVars, loopVars, callVars>>

\* upgrader.Upgrade fails, lines 171-174: no connection, no handler.
UpgradeFail(c) ==
    /\ pc[c] = "idle"
    /\ pc' = [pc EXCEPT ![c] = "rejected"]
    /\ UNCHANGED <<id, regVars, chanVars, readVars, loopVars, callVars>>

\* ws.connectionManager.Add(id, conn), line 93 (lines 40-44).
Add(c) ==
    /\ pc[c] = "add"
    /\ CanLock
    /\ connections' = MapAdd(connections, id[c], c)
    /\ lastAdd' = [lastAdd EXCEPT ![id[c]] = c]
    /\ pc' = [pc EXCEPT ![c] = "id_write"]
    /\ UNCHANGED <<id, mutexW, mutexR, chanVars, readVars, loopVars, callVars>>

\* conn.WriteJSON(map[string]string{"userId": id}), line 97: the call.
IdWriteBegin(c) ==
    /\ pc[c] = "id_write"
    /\ writers' = [writers EXCEPT ![c] = @ \cup {c}]
    /\ pc' = [pc EXCEPT ![c] = "id_writing"]
    /\ UNCHANGED <<id, regVars, closed, written, readVars, loopVars, callVars>>

\* Line 97: the return; lines 97-100: on an error the handler returns and
\* the deferred closeConnection runs.
IdWriteEnd(c) ==
    /\ pc[c] = "id_writing"
    /\ writers' = [writers EXCEPT ![c] = @ \ {c}]
    /\ \E ok \in WriteOutcomes(c) :
          IF ok
          THEN /\ written' = [written EXCEPT ![c] =
                                AppendMessage(@, Entry(IdentityJSON(id[c]), c,
                                                     NilMessage))]
               /\ pc' = [pc EXCEPT ![c] = AfterIdWrite(ok)]
          ELSE /\ written' = written
               /\ pc' = [pc EXCEPT ![c] = AfterIdWrite(ok)]
    /\ UNCHANGED <<id, regVars, closed, readVars, loopVars, callVars>>

\* What ReadMessage may return at line 104, as <<message, failed>>: a whole
\* client message; or an error, with the nil slice when no frame of a
\* message arrived (a close, a reset, and every read after a failed one) or
\* with the bytes read so far when the transport broke inside a message
\* (those bytes may be a whole JSON text).
ReadResults(c) ==
    {<<NilMessage, TRUE>>}
    \cup (IF readFailed[c] \/ reads >= MaxReads THEN {}
          ELSE {<<Envelope(k, u, Payload(reads + 1)), f>> :
                   k \in {"sdp", "candidate"}, u \in ClientUserIds,
                   f \in BOOLEAN}
               \cup {<<Envelope("duptag", u, Payload(reads + 1)), FALSE>> :
                        u \in ClientUserIds}
               \cup {<<Junk(k), FALSE>> : k \in DroppedKinds})

\* The argument the switch of lines 116-127 hands to forwardSignal.
ForwardArg(m) ==
    IF GenericUnmarshal(m).SignalType = "sdp" THEN UnmarshalSdp(m)
    ELSE AsSdpParam(UnmarshalCandidate(m))

\* One pass of lines 104-127 up to the registry lookup: ReadMessage; err is
\* overwritten by json.Unmarshal's result (line 110); the switch picks the
\* variant and forwardSignal is entered (lines 141-146) with the handler's
\* id as senderID; any other tag falls through to line 129.
ReadMessage(c) ==
    /\ pc[c] = "read"
    /\ \E r \in ReadResults(c) :
          LET m == r[1]
              g == GenericUnmarshal(m)
          IN  /\ message' = [message EXCEPT ![c] = m]
              /\ readFailed' = [readFailed EXCEPT ![c] = @ \/ r[2]]
              /\ reads' = IF m = NilMessage THEN reads ELSE reads + 1
              /\ err' = [err EXCEPT ![c] = g.err]
              /\ IF g.SignalType \in {"sdp", "candidate"}
                 THEN /\ targetID' = [targetID EXCEPT ![c] =
                                        ForwardArg(m).UserID]
                      /\ fwdMsg' = [fwdMsg EXCEPT ![c] =
                                      StampSender(ForwardArg(m), id[c])]
                      /\ pc' = [pc EXCEPT ![c] = "get"]
                 ELSE /\ UNCHANGED <<targetID, fwdMsg>>
                      /\ pc' = [pc EXCEPT ![c] = "check_err"]
    /\ UNCHANGED <<id, regVars, chanVars, targetConn, exists, callVars>>

\* ws.connectionManager.Get(targetID), line 149 (lines 54-59); lines
\* 150-153: a missing target is logged and forwardSignal returns.
Get(c) ==
    /\ pc[c] = "get"
    /\ CanRLock
    /\ LET r == MapGet(connections, targetID[c])
       IN  /\ targetConn' = [targetConn EXCEPT ![c] = r.conn]
           /\ exists' = [exists EXCEPT ![c] = r.exists]
           /\ pc' = [pc EXCEPT ![c] =
                       IF r.exists THEN "fwd_write" ELSE "check_err"]
    /\ UNCHANGED <<id, regVars, chanVars, readVars, message, err, targetID,
                   fwdMsg, callVars>>

\* targetConn.WriteJSON(message), line 156: the call.
FwdWriteBegin(c) ==
    /\ pc[c] = "fwd_write"
    /\ writers' = [writers EXCEPT ![targetConn[c]] = @ \cup {c}]
    /\ pc' = [pc EXCEPT ![c] = "fwd_writing"]
    /\ UNCHANGED <<id, regVars, closed, written, readVars, loopVars, callVars>>

\* Line 156: the return; lines 156-158: an error is logged and dropped.
FwdWriteEnd(c) ==
    /\ pc[c] = "fwd_writing"
    /\ writers' = [writers EXCEPT ![targetConn[c]] = @ \ {c}]
    /\ \E ok \in WriteOutcomes(targetConn[c]) :
          /\ written' = IF ok
                        THEN [written EXCEPT ![targetConn[c]] =
                                AppendMessage(@, Entry(SdpJSON(fwdMsg[c]), c,
                                                       message[c]))]
                        ELSE written
          /\ err' = [err EXCEPT ![c] = ErrAfterForward(@, ok)]
    /\ pc' = [pc EXCEPT ![c] = "check_err"]
    /\ UNCHANGED <<id, regVars, closed, readVars, message, targetID, fwdMsg,
                   targetConn, exists, callVars>>

\* Lines 129-136: break on err, otherwise the next iteration; the locals of
\* the iteration and of forwardSignal go out of scope.
CheckErr(c) ==
    /\ pc[c] = "check_err"
    /\ pc' = [pc EXCEPT ![c] = AfterIteration(err[c])]
    /\ message' = [message EXCEPT ![c] = NoMessage]
    /\ err' = [err EXCEPT ![c] = FALSE]
    /\ targetID' = [targetID EXCEPT ![c] = NoId]
    /\ fwdMsg' = [fwdMsg EXCEPT ![c] = NoFwd]
    /\ targetConn' = [targetConn EXCEPT ![c] = NoConn]
    /\ exists' = [exists EXCEPT ![c] = FALSE]
    /\ UNCHANGED <<id, regVars, chanVars, readVars, callVars>>

\* closeConnection, line 164: conn.Close().
Close(c) ==
    /\ pc[c] = "close"
    /\ closed' = [closed EXCEPT ![c] = TRUE]
    /\ pc' = [pc EXCEPT ![c] = "remove"]
    /\ UNCHANGED <<id, regVars, writers, written, readVars, loopVars, callVars>>

\* closeConnection, line 165: ws.connectionManager.Remove(id) (lines
\* 47-51); handleConnection and handleWebSocket return.
Remove(c) ==
    /\ pc[c] = "remove"
    /\ CanLock
    /\ connections' = MapRemove(connections, id[c])
    /\ lastAdd' = [lastAdd EXCEPT ![id[c]] = NoConn]
    /\ pc' = [pc EXCEPT ![c] = "done"]
    /\ UNCHANGED <<id, mutexW, mutexR, chanVars, readVars, loopVars, callVars>>

Next ==
    \E c \in Conns :
        \/ Upgrade(c)
        \/ UpgradeFail(c)
        \/ Add(c)
        \/ IdWriteBegin(c)
        \/ IdWriteEnd(c)
        \/ ReadMessage(c)
        \/ Get(c)
        \/ FwdWriteBegin(c)
        \/ FwdWriteEnd(c)
        \/ CheckErr(c)
        \/ Close(c)
        \/ Remove(c)

Spec == Init /\ [][Next]_vars

\* The steps handler c takes without waiting for its client: every step of
\* handleConnection but a ReadMessage that blocks for input.  A ReadMessage
\* on a connection whose read has failed returns at once with the error.
HandlerStep(c) ==
    \/ Add(c)
    \/ IdWriteBegin(c)
    \/ IdWriteEnd(c)
    \/ readFailed[c] /\ ReadMessage(c)
    \/ Get(c)
    \/ FwdWriteBegin(c)
    \/ FwdWriteEnd(c)
    \/ CheckErr(c)
    \/ Close(c)
    \/ Remove(c)

\* The server with every handler goroutine scheduled (one goroutine per
\* connection, lines 169-176): weak fairness of each handler's steps.
FairSpec == Spec /\ \A c \in Conns : WF_vars(HandlerStep(c))


\* ------------------------------------------- the registry under any callers
\* SpecRegistry: every goroutine c calls Add, Remove and Get on the one
\* ConnectionManager with any arguments, each call being Lock (or RLock),
\* the map access and the deferred Unlock (or RUnlock) as separate steps.

IsWrite(k) == k.op \in {"Add", "Remove"}
\* Caller c is between its lock and its unlock.
InSection(c) == call[c].at \in {"body", "unlock"}
\* Another goroutine is inside a section that conflicts with c's access:
\* a data race on the map (lines 43, 50, 57).
Races(c) ==
    \E d \in Conns \ {c} :
        InSection(d) /\ (IsWrite(call[c]) \/ IsWrite(call[d]))
\* Every value the map can hold.
AnyMap == UNION {[D -> Conns] : D \in SUBSET Ids}

\* A goroutine enters Add(id, conn), Remove(id) or Get(id).
RegCall(c) ==
    /\ call[c].at = "idle"
    /\ ncalls < MaxCalls
    /\ ncalls' = ncalls + 1
    /\ \E o \in {"Add", "Remove", "Get"}, i \in Ids, h \in Conns :
          call' = [call EXCEPT ![c] =
                     [NoCall EXCEPT !.op = o, !.id = i, !.at = "lock",
                                    !.conn = IF o = "Add" THEN h ELSE NoConn]]
    /\ UNCHANGED <<pc, id, regVars, chanVars, readVars, loopVars>>

\* cm.mutex.Lock() of lines 41 and 48, cm.mutex.RLock() of line 55.
RegLock(c) ==
    /\ call[c].at = "lock"
    /\ IF IsWrite(call[c])
       THEN CanLock /\ mutexW' = TRUE /\ mutexR' = mutexR
       ELSE CanRLock /\ mutexR' = mutexR + 1 /\ mutexW' = mutexW
    /\ call' = [call EXCEPT ![c].at = "body"]
    /\ UNCHANGED <<pc, id, connections, lastAdd, chanVars, readVars, loopVars,
                   ncalls>>

\* The map access of lines 43, 50 and 57.  Under a data race a read yields
\* any result and a write leaves any map.
RegBody(c) ==
    /\ call[c].at = "body"
    /\ LET k == call[c]
       IN  CASE k.op = "Add" ->
                  /\ connections' \in IF Races(c) THEN AnyMap
                                      ELSE {MapAdd(connections, k.id, k.conn)}
                  /\ lastAdd' = [lastAdd EXCEPT ![k.id] = k.conn]
                  /\ call' = [call EXCEPT ![c].at = "unlock"]
             [] k.op = "Remove" ->
                  /\ connections' \in IF Races(c) THEN AnyMap
                                      ELSE {MapRemove(connections, k.id)}
                  /\ lastAdd' = [lastAdd EXCEPT ![k.id] = NoConn]
                  /\ call' = [call EXCEPT ![c].at = "unlock",
                                          ![c].found =
                                              k.id \in DOMAIN connections]
             [] OTHER ->
                  /\ \E r \in IF Races(c)
                              THEN [conn : Conns \cup {NoConn},
                                    exists : BOOLEAN]
                              ELSE {MapGet(connections, k.id)} :
                        call' = [call EXCEPT ![c].at = "unlock",
                                             ![c].found = r.exists,
                                             ![c].got = r.conn]
                  /\ UNCHANGED <<connections, lastAdd>>
    /\ UNCHANGED <<pc, id, mutexW, mutexR, chanVars, readVars, loopVars,
                   ncalls>>

\* The deferred cm.mutex.Unlock() of lines 42 and 49, cm.mutex.RUnlock() of
\* line 56; the call returns.
RegUnlock(c) ==
    /\ call[c].at = "unlock"
    /\ IF IsWrite(call[c])
       THEN mutexW' = FALSE /\ mutexR' = mutexR
       ELSE mutexR' = mutexR - 1 /\ mutexW' = mutexW
    /\ call' = [call EXCEPT ![c] = NoCall]
    /\ UNCHANGED <<pc, id, connections, lastAdd, chanVars, readVars, loopVars,
                   ncalls>>

RegNext ==
    \E c \in Conns :
        \/ RegCall(c)
        \/ RegLock(c)
        \/ RegBody(c)
        \/ RegUnlock(c)

SpecRegistry == Init /\ [][RegNext]_vars

\* ------------------------------------------------------------------ claims

\* The entries of every channel that forwardSignal wrote.
Forwards == {e \in UNION {{written[c][n] : n \in DOMAIN written[c]} :
                          c \in Conns} : e.env # NilMessage}
\* Handler a has taken a step.
Stepped(a) == pc'[a] # pc[a]
\* The channel of the connection registered under identity i, if any.
HandleOf(i) == {b \in Conns : i \in DOMAIN connections /\ connections[i] = b}

\* C1: sender-authenticity.  Every envelope forwardSignal has written to a
\* channel carries, in userId, the identity handleConnection minted for the
\* connection it was read from, whatever userId its client had put in it.
C1_SenderAuthentic ==
    \A e \in Forwards : e.json.userId = id[e.from]

\* C1 witness: a forwarded envelope lies on another connection's channel,
\* its client had put that other connection's live identity in userId, and
\* it now carries the sender's.
C1_Witness ==
    \E a, b \in Conns :
        /\ a # b
        /\ id[b] \in DOMAIN connections
        /\ \E n \in DOMAIN written[b] :
              LET e == written[b][n]
              IN  /\ e.env # NilMessage
                  /\ e.from = a
                  /\ e.env.userId = id[b]
                  /\ e.json.userId = id[a]

\* The message the relay is to write for the sdp envelope m read from a.
SdpExpected(a, m) ==
    Entry([signalType |-> "sdp", userId |-> id[a], sdp_base64 |-> m.payload],
          a, m)

\* C2, the step: while handler a handles one sdp envelope, the only change
\* to any channel is that, when the write on the channel registered under
\* the addressed identity is accepted, exactly the envelope with signalType
\* "sdp", the sender's identity and the payload as sent is appended to it.
C2_Step(a) ==
    (/\ message[a].kind = "sdp"
     /\ pc[a] \in {"get", "fwd_write", "fwd_writing", "check_err"}
     /\ Stepped(a))
    => \/ written' = written
       \/ /\ pc[a] = "fwd_writing"
          /\ \E b \in Conns :
                /\ id[b] = message[a].userId
                /\ written' = [written EXCEPT ![b] =
                                 Append(@, SdpExpected(a, message[a]))]

\* C2: exactly-once delivery of an sdp envelope.  Each sdp envelope read is
\* written at most once over all channels, only to the channel of the
\* identity it was addressed to, as signalType "sdp" with the sender's
\* identity and the payload unchanged; and it is written once when that
\* channel accepts the write.
C2_SdpExactlyOnce ==
    /\ [](\A c \in Conns : \A n \in DOMAIN written[c] :
             written[c][n].env.kind = "sdp" =>
                /\ written[c][n] = SdpExpected(written[c][n].from,
                                               written[c][n].env)
                /\ written[c][n].env.userId = id[c]
                /\ \A d \in Conns : \A k \in DOMAIN written[d] :
                      written[d][k].env = written[c][n].env
                          => (d = c /\ k = n))
    /\ [][\A a \in Conns : C2_Step(a)]_vars

\* C2 witness: A's sdp envelope addressed to B's identity has been written
\* to B's channel and A's handler is back at the loop's exit test.
C2_Witness ==
    \E a, b \in Conns :
        /\ a # b
        /\ pc[a] = "check_err" /\ message[a].kind = "sdp"
        /\ message[a].userId = id[b]
        /\ written[b] # <<>>
        /\ written[b][Len(written[b])] = SdpExpected(a, message[a])
        /\ \A n \in DOMAIN written[a] : written[a][n].env = NilMessage

\* C3: candidate forwarding.  Every candidate envelope the relay has
\* written is the candidate variant: signalType "candidate", userId the
\* sender's identity and a candidate field holding the string as sent.
C3_CandidateForwarded ==
    \A e \in Forwards :
        e.env.kind = "candidate" =>
            e.json = [signalType |-> "candidate", userId |-> id[e.from],
                      candidate |-> e.env.payload]

\* Handler a is handling a well-formed sdp or candidate envelope.
HandlesEnvelope(a) == message[a].kind \in {"sdp", "candidate"}

\* C4: a routing-miss is silent.  When the userId of an sdp or candidate
\* envelope from A is not a key of the registry at lookup time, the lookup
\* and the rest of the iteration write to no channel and leave the registry
\* as it is, and A's handler is back at ReadMessage, still Registered.
C4_RoutingMissSilent ==
    [][\A a \in Conns :
          /\ (/\ pc[a] = "get" /\ HandlesEnvelope(a) /\ Stepped(a)
              /\ targetID[a] \notin DOMAIN connections)
             => /\ written' = written /\ writers' = writers
                /\ connections' = connections
                /\ ~exists'[a] /\ pc'[a] = "check_err"
          /\ (/\ pc[a] = "check_err" /\ HandlesEnvelope(a) /\ Stepped(a)
              /\ ~exists[a])
             => /\ written' = written /\ writers' = writers
                /\ connections' = connections
                /\ pc'[a] = "read" /\ Registered(a)']_vars

\* C4 witness: A's envelope named an identity that is no key of the
\* registry while another connection is registered, the lookup has missed,
\* and A can still be sent a further message.
C4_Witness ==
    \E a \in Conns :
        /\ pc[a] = "check_err" /\ HandlesEnvelope(a) /\ ~exists[a]
        /\ message[a].userId \notin DOMAIN connections
        /\ \E b \in Conns \ {a} : id[b] \in DOMAIN connections
        /\ reads < MaxReads /\ ~readFailed[a]

\* C5: an unrecognized envelope is silent.  After a well-formed JSON object
\* whose signalType is absent or a value other than "sdp" and "candidate",
\* nothing is written, the registry is unchanged and the handler is back at
\* ReadMessage, still Registered.
C5_UnrecognizedSilent ==
    [][\A a \in Conns :
          (/\ pc[a] = "check_err" /\ Stepped(a)
           /\ message[a].kind \in {"unknown", "notag", "badtag"})
          => /\ written' = written
             /\ connections' = connections
             /\ pc'[a] = "read" /\ Registered(a)']_vars

\* C6: an envelope parse failure is recovered locally.  After a ReadMessage
\* that succeeded with a payload for which json.Unmarshal of the generic
\* envelope returns an error, the handler is back at ReadMessage, still
\* Registered, with its registry entry in place.
C6_ParseFailureRecovered ==
    [][\A a \in Conns :
          (/\ pc[a] = "check_err" /\ Stepped(a)
           /\ ~readFailed[a]
           /\ GenericUnmarshal(message[a]).err)
          => /\ pc'[a] = "read" /\ Registered(a)'
             /\ connections' = connections]_vars

\* C7: registry linearizability.  While a Get holds its read lock after the
\* map read, its result is found=true with the handle of the most recent
\* Add of that identity when no Remove took effect after that Add, and
\* found=false (with the nil handle) otherwise.
C7_GetReturnsLatestAdd ==
    \A c \in Conns :
        (call[c].op = "Get" /\ call[c].at = "unlock") =>
            /\ call[c].found = (lastAdd[call[c].id] # NoConn)
            /\ call[c].got = lastAdd[call[c].id]

\* C7 witness: after an Add and a Remove have taken effect, two Gets hold
\* the read lock together, one having found its identity and one not.
C7_Witness ==
    \E c, d \in Conns :
        /\ call[c].op = "Get" /\ call[c].at = "unlock" /\ call[c].found
        /\ call[d].op = "Get" /\ call[d].at = "unlock" /\ ~call[d].found
        /\ lastAdd[call[d].id] = NoConn
        /\ mutexR = 2
        /\ ncalls = MaxCalls

\* The connection of handler c has been accepted and registered.
Accepted(c) == pc[c] \notin {"idle", "rejected", "add"}

\* C8: registry/liveness invariant.  The registry maps identity i to the
\* channel of the connection that was assigned i exactly while that
\* connection is accepted and Close has not been called on its channel.
C8_EntryIffLive ==
    \A c \in Conns :
        HandleOf(id[c]) = {c} <=> (Accepted(c) /\ ~closed[c])

\* C9: writes to one channel handle are serialized: no two handlers are
\* inside a WriteJSON on the same handle at once.
C9_WritesSerialized ==
    \A c \in Conns : Cardinality(writers[c]) <= 1

\* The position of an envelope in the order the relay read them.
ReadOrder(m) == m.payload[2]

\* C10: per-flow FIFO.  On every channel the envelopes forwarded from one
\* sender lie in the order that sender's handler read them, and a write of
\* that sender in progress is of an envelope read after all of them.
C10_PerFlowFIFO ==
    \A b \in Conns :
        /\ \A i, j \in DOMAIN written[b] :
              (/\ i < j
               /\ written[b][i].env # NilMessage
               /\ written[b][j].env # NilMessage
               /\ written[b][i].from = written[b][j].from)
              => ReadOrder(written[b][i].env) < ReadOrder(written[b][j].env)
        /\ \A a \in writers[b] : \A i \in DOMAIN written[b] :
              (/\ pc[a] = "fwd_writing"
               /\ written[b][i].env # NilMessage
               /\ written[b][i].from = a)
              => ReadOrder(written[b][i].env) < ReadOrder(message[a])

\* C10 witness: two envelopes of one sender lie on another connection's
\* channel.
C10_Witness ==
    \E a, b \in Conns :
        /\ a # b
        /\ \E i, j \in DOMAIN written[b] :
              /\ i < j
              /\ written[b][i].env # NilMessage /\ written[b][i].from = a
              /\ written[b][j].env # NilMessage /\ written[b][j].from = a

\* C11: stale target after disconnect.  Once A's teardown has completed,
\* A's former identity is no key of the registry, and the lookup of every
\* sdp or candidate envelope addressed to it misses: nothing is written to
\* any channel, no write is begun, and the sender's handler is back at
\* ReadMessage, still Registered.
C11_StaleTargetMisses ==
    /\ [](\A a \in Conns : Closed(a) => id[a] \notin DOMAIN connections)
    /\ [][\A b \in Conns :
             (/\ HandlesEnvelope(b) /\ Stepped(b)
              /\ pc[b] \in {"get", "check_err"}
              /\ \E a \in Conns : Closed(a) /\ targetID[b] = id[a])
             => /\ written' = written /\ writers' = writers
                /\ connections' = connections
                /\ ~exists'[b]
                /\ pc'[b] = IF pc[b] = "get" THEN "check_err" ELSE "read"
                /\ Registered(b)']_vars

\* C11 witness: A is Closed, B's envelope addressed to A's former identity
\* has been looked up and has missed.
C11_Witness ==
    \E a, b \in Conns :
        /\ a # b /\ Closed(a)
        /\ pc[b] = "check_err" /\ HandlesEnvelope(b)
        /\ message[b].userId = id[a] /\ ~exists[b]
        /\ written[a] # <<>>

\* C12: teardown is idempotent.  Remove(id) leaves id without an entry and
\* every other identity's entry as it was; on an identity that has no entry
\* it leaves the registry unchanged, so a second Remove(id) (the disconnect
\* path run twice) yields the registry the first one left.
C12_RemoveIdempotent ==
    [][\A c \in Conns :
          (call[c].op = "Remove" /\ call[c].at = "body"
             /\ call'[c].at = "unlock")
          => /\ call[c].id \notin DOMAIN connections'
             /\ \A i \in DOMAIN connections \ {call[c].id} :
                   i \in DOMAIN connections'
                     /\ connections'[i] = connections[i]
             /\ DOMAIN connections' \subseteq DOMAIN connections
             /\ (call[c].id \notin DOMAIN connections
                   => connections' = connections)
             /\ MapRemove(connections', call[c].id) = connections']_vars

\* C12 witness: a Remove has just run on an identity that had no entry (it
\* was removed before or never added) while another identity is registered.
C12_Witness ==
    \E c \in Conns :
        /\ call[c].op = "Remove" /\ call[c].at = "unlock"
        /\ ~call[c].found
        /\ call[c].id \notin DOMAIN connections
        /\ connections # <<>>
        /\ ncalls = MaxCalls

\* C13: Closed is terminal and identities are never reused.  A Closed
\* connection stays Closed, keeps its identity, and that identity is never a
\* registry key again; Add never overwrites an entry (the identity it adds
\* has none), so each minted identity is added exactly once.
C13_ClosedTerminal ==
    /\ [](\A c \in Conns : Closed(c) => id[c] \notin DOMAIN connections)
    /\ [][\A c \in Conns :
             /\ Closed(c) => (Closed(c)' /\ id'[c] = id[c])
             /\ (pc[c] = "add" /\ Stepped(c))
                  => /\ id[c] \notin DOMAIN connections
                     /\ \A d \in Conns \ {c} : id[d] # id[c]
             /\ pc'[c] = "add" => pc[c] \in {"idle", "add"}
             /\ (id[c] # NoId) => id'[c] = id[c]]_vars

\* C13 witness: one connection is Closed, its identity is no key, and the
\* other connection has been added since and is in its read loop.
C13_Witness ==
    \E c, d \in Conns :
        /\ c # d /\ Closed(c) /\ closed[c]
        /\ id[c] \notin DOMAIN connections
        /\ pc[d] = "read" /\ id[d] \in DOMAIN connections
        /\ connections[id[d]] = d

\* An entry of a channel's log that is an identity message.
IsIdentity(e) == e.env = NilMessage
\* The positions of identity messages in the log of c's channel.
IdentityWrites(c) == {n \in DOMAIN written[c] : IsIdentity(written[c][n])}
\* Handler c is in its read loop.
InLoop(c) == pc[c] \in {"read", "get", "fwd_write", "fwd_writing", "check_err"}

\* C14: identity disclosure happens once and in order.  The handler passes
\* through the identity write once, between Add and the loop; while it is at
\* that write the registry maps its identity to its channel and it has read
\* nothing and forwarded nothing; every identity message on a channel was
\* written by that channel's own handler and carries the identity the
\* connection was registered under; a channel holds at most one, and holds
\* one whenever its handler is in the read loop.
C14_IdentityOnceInOrder ==
    /\ [](\A c \in Conns :
            /\ \A n \in IdentityWrites(c) :
                  /\ written[c][n].from = c
                  /\ written[c][n].json = [userId |-> id[c]]
            /\ Cardinality(IdentityWrites(c)) <= 1
            /\ InLoop(c) => Cardinality(IdentityWrites(c)) = 1
            /\ pc[c] \in {"id_write", "id_writing"}
                 => /\ id[c] \in DOMAIN connections
                    /\ connections[id[c]] = c
                    /\ IdentityWrites(c) = {}
                    /\ message[c] = NoMessage /\ ~readFailed[c]
                    /\ \A d \in Conns :
                          \A n \in DOMAIN written[d] : written[d][n].from # c
            /\ pc[c] = "id_writing" => c \in writers[c])
    /\ [][\A c \in Conns :
             Stepped(c) =>
                /\ pc'[c] = "id_write" <=> pc[c] = "add"
                /\ pc'[c] = "id_writing" <=> pc[c] = "id_write"
                /\ pc[c] = "id_writing" => pc'[c] \in {"read", "close"}
                /\ pc'[c] = "read" => pc[c] \in {"id_writing", "check_err"}
                /\ pc'[c] \in {"get", "check_err"}
                     => pc[c] \in {"read", "get", "fwd_writing"}]_vars

\* C14 witness: the identity message, carrying the registered identity, is on
\* the connection's channel and the handler is at its first ReadMessage.
C14_Witness ==
    \E c \in Conns :
        /\ pc[c] = "read" /\ reads = 0
        /\ written[c] = <<Entry([userId |-> id[c]], c, NilMessage)>>
        /\ connections[id[c]] = c

\* The identity write of c failed: its handler is in teardown and its
\* channel never got the identity message.
IdFailed(c) == pc[c] \in {"close", "remove", "done"} /\ IdentityWrites(c) = {}

\* C15: an identity-disclosure failure is fatal to that connection only.
\* A failed identity write sends the handler to teardown; from then on it
\* has read nothing and forwarded nothing, its steps are Close and Remove,
\* which leave every other connection's state, channel and registry entry
\* as they were, and under fair scheduling it reaches Closed with its
\* channel closed and its entry removed.
C15_IdFailureFatalToSelf ==
    /\ [](\A c \in Conns :
            IdFailed(c) =>
               /\ message[c] = NoMessage /\ ~readFailed[c]
               /\ \A d \in Conns :
                     \A n \in DOMAIN written[d] : written[d][n].from # c
               /\ pc[c] \in {"remove", "done"} => closed[c]
               /\ pc[c] = "done" => id[c] \notin DOMAIN connections)
    /\ [][\A c \in Conns :
             /\ (pc[c] = "id_writing" /\ Stepped(c) /\ written' = written)
                  => /\ pc'[c] = "close"
                     /\ connections' = connections /\ closed' = closed
                     /\ \A d \in Conns \ {c} : pc'[d] = pc[d]
             /\ (IdFailed(c) /\ Stepped(c))
                  => /\ pc'[c] = IF pc[c] = "close" THEN "remove" ELSE "done"
                     /\ written' = written /\ readVars' = readVars
                     /\ \A d \in Conns \ {c} :
                           /\ pc'[d] = pc[d] /\ closed'[d] = closed[d]
                           /\ id[d] \in DOMAIN connections
                                => /\ id[d] \in DOMAIN connections'
                                   /\ connections'[id[d]] =
                                          connections[id[d]]]_vars
    /\ \A c \in Conns :
          (pc[c] = "close" /\ IdentityWrites(c) = {})
             ~> (Closed(c) /\ closed[c] /\ id[c] \notin DOMAIN connections)

\* C15 witness: one connection's identity write failed and its teardown is
\* complete, while the other connection is registered, in its read loop,
\* with its identity message delivered.
C15_Witness ==
    \E c, d \in Conns :
        /\ c # d /\ IdFailed(c) /\ Closed(c) /\ written[c] = <<>>
        /\ InLoop(d) /\ IdentityWrites(d) # {}
        /\ id[d] \in DOMAIN connections /\ connections[id[d]] = d

\* C16: teardown liveness.  With every handler scheduled, a connection
\* whose ReadMessage has failed eventually is Closed: its channel is closed
\* and its identity is no registry key, whatever the other handlers do.
C16_ReadFailureLeadsToClosed ==
    \A c \in Conns :
        readFailed[c]
          ~> (Closed(c) /\ closed[c] /\ id[c] \notin DOMAIN connections)

\* C16 witness: a connection whose read failed is Closed while the other
\* connection is still in its read loop.
C16_Witness ==
    \E c, d \in Conns :
        /\ c # d /\ readFailed[c] /\ Closed(c) /\ closed[c]
        /\ id[c] \notin DOMAIN connections
        /\ InLoop(d) /\ ~readFailed[d]

\* Handler a is back from a forwardSignal whose write failed: the target was
\* found and the target's channel holds no message made from a's envelope.
FwdFailed(a) ==
    /\ pc[a] = "check_err" /\ exists[a]
    /\ \A n \in DOMAIN written[targetConn[a]] :
          ~(written[targetConn[a]][n].from = a
              /\ written[targetConn[a]][n].env = message[a])

\* C17: a forward-write failure has no effect beyond the dropped message.
\* The step on which the write fails changes nothing but the sender's
\* position inside the loop: the registry, every channel, the loop's err
\* and every other handler stay as they were; and after a failed forward of
\* an sdp or candidate envelope the sender goes on to its next ReadMessage,
\* Registered, the registry again unchanged.
C17_ForwardFailureDropsOnly ==
    [][\A a \in Conns :
          /\ (pc[a] = "fwd_writing" /\ Stepped(a) /\ written' = written)
               => /\ connections' = connections /\ closed' = closed
                  /\ err'[a] = err[a]
                  /\ pc'[a] = "check_err"
                  /\ Registered(a) /\ Registered(a)'
                  /\ \A d \in Conns \ {a} : pc'[d] = pc[d]
          /\ (FwdFailed(a) /\ HandlesEnvelope(a) /\ Stepped(a))
               => /\ pc'[a] = "read" /\ Registered(a)'
                  /\ connections' = connections /\ closed' = closed
                  /\ written' = written
                  /\ \A d \in Conns \ {a} : pc'[d] = pc[d]]_vars

\* C17 witness: a forward to a registered target whose channel is open has
\* failed and the sender is at the loop's exit test.
C17_Witness ==
    \E a \in Conns :
        /\ FwdFailed(a) /\ HandlesEnvelope(a)
        /\ targetConn[a] # a /\ ~closed[targetConn[a]]
        /\ targetID[a] \in DOMAIN connections
        /\ connections[targetID[a]] = targetConn[a]

\* C18: a transport-level read error always ends the read loop.  Once a
\* ReadMessage of a connection has returned an error, its handler is never
\* at ReadMessage again.
C18_ReadErrorEndsLoop ==
    \A c \in Conns : readFailed[c] => pc[c] # "read"

\* C19: no write after release.  A forwarder begins a WriteJSON only on a
\* channel handle on which Close has not been called.
C19_NoWriteAfterClose ==
    [][\A a \in Conns :
          (pc[a] = "fwd_write" /\ Stepped(a)) => ~closed[targetConn[a]]]_vars

\* C20: the identity message is the first message on a channel.  Every
\* forwarded envelope on a channel comes after the channel's identity
\* message.
C20_IdentityFirst ==
    \A c \in Conns :
        \A n \in DOMAIN written[c] :
            ~IsIdentity(written[c][n])
               => \E k \in 1..(n - 1) : IsIdentity(written[c][k])

====
